---------------------------- MODULE Spec2Model ----------------------------
(***************************************************************************)
(* NetStack: a thin C++ layer over Berkeley sockets.                       *)
(*                                                                         *)
(*   Address (src/src/address.hpp:50-188)  sockaddr_storage + length +     *)
(*                                         validity flag                   *)
(*   Socket  (src/src/address.hpp:271-463) one descriptor, forwarders to   *)
(*                                         send/recv/shutdown/close        *)
(*   netstack.h                            validity / close / last error   *)
(*                                                                         *)
(* The POSIX branches of the #if defined(_WIN32) conditionals are the ones *)
(* modelled.  The operating system the wrappers forward to is modelled as  *)
(* far as the wrappers observe it: a descriptor table, errno, and a        *)
(* connected stream pair with in-flight and queued bytes.                  *)
(***************************************************************************)
EXTENDS Integers, Sequences, FiniteSets, TLC

VARIABLES
    address,      \* the Address object: state_, address_ (family, port, host bytes), length_
    addrCall,     \* the constructor call being made: which constructor and its arguments
    addrPc,       \* "raw" before the constructor has run, "built" after
    fdTable,      \* the process's descriptor table: descriptor -> the opening it holds, 0 if free
    errno,        \* the thread's errno
    sockets,      \* the Socket objects: live, _socket, and the opening the object was given
    rawFds,       \* descriptors the caller got from the OS itself and holds unwrapped
    closeLog,     \* per opening: how many ~Socket calls closed a descriptor on its behalf
    nOpened,      \* how many descriptors the OS has handed out
    nCopies,      \* how many Socket objects have been made by copying
    lastCall,     \* the last OS call: whether it failed, and with which code
    errQuery,     \* the last call of the last-error accessor and what it returned
    validQuery,   \* the last call of the validity check: its argument and what it returned
    conn,         \* the connected stream pair as the OS holds it, per endpoint
    buffer,       \* the receiver's std::string, which Receive(buffer, flags) appends to
    rx,           \* the Receive(buffer, flags) call in progress: its locals and its reads
    sendLog,      \* the send calls made: how many, the last one's length and result
    wrapLog,      \* the last call of a raw wrapper: its OS calls and what it returned
    shutLog,      \* per socket: the last Shutdown call, its OS result and its return value
    readLog,      \* the last read the OS served, and what was pending when it was asked
    nRecvCalls    \* how many receive calls the receiver has made

addrVars == <<address, addrCall, addrPc>>
sockVars ==
    <<fdTable, errno, sockets, rawFds, closeLog, nOpened, nCopies, lastCall, errQuery,
      validQuery>>
ioVars == <<conn, buffer, rx, sendLog, wrapLog, shutLog, readLog, nRecvCalls>>
vars == <<addrVars, sockVars, ioVars>>

\* What the actions of one part leave alone.
addrRest == <<sockVars, ioVars>>
sockRest == <<addrVars, ioVars>>
ioRest ==
    <<addrVars, fdTable, sockets, rawFds, closeLog, nOpened, nCopies, lastCall, errQuery,
      validQuery>>

---------------------------------------------------------------------------
(* Bounds of the model *)

\* longest generated IP text (characters)
MaxIpLen == 7

\* Socket objects alive at once, descriptors the process may hold, and
\* descriptors the OS hands out in a run
MaxObjects == 2
MaxFds == 1
MaxOpens == 2
\* copies of Socket objects made in a run
MaxCopies == 1
\* send calls and receive calls in a run, the bytes the sender hands to send
\* calls in a run, and the bytes the network holds in flight towards one
\* endpoint
MaxSends == 1
MaxRecvCalls == 1
MaxSendBytes == 255
WireCap == 254

(* Platform constants *)

SOCK_STREAM == 1
SOCK_DGRAM == 2
IPPROTO_TCP == 6
IPPROTO_UDP == 17
SOCKET_ERROR == -1
\* the first descriptor after stdin, stdout, stderr
FirstFd == 3
EBADF == 9
EMFILE == 24
EPROTONOSUPPORT == 93
ESOCKTNOSUPPORT == 94
EAFNOSUPPORT == 97
EPIPE == 32
ECONNRESET == 104
ENOTCONN == 107
\* the chunk size of Receive(buffer, flags)
CHAR_MAX == 127

AF_INET == 2
AF_INET6 == 10
\* sizeof(sockaddr_storage), sizeof(sockaddr_in), sizeof(sockaddr_in6)
SizeofSockaddrStorage == 128
SizeofSockaddrIn == 16
SizeofSockaddrIn6 == 28
\* largest value of the constructor's `unsigned short port`
USHRT_MAX == 65535
\* bytes of a binary IPv6 address (the parser's output buffer)
NS_IN6ADDRSZ == 16

Min(a, b) == IF a <= b THEN a ELSE b

---------------------------------------------------------------------------
(* IP text: a sequence of one-character strings *)

DecDigits == <<"0", "1", "2", "3", "4", "5", "6", "7", "8", "9">>
HexDigits == DecDigits \o <<"a", "b", "c", "d", "e", "f">>

IsDecDigit(ch) == \E i \in 1..Len(DecDigits) : DecDigits[i] = ch
IsHexDigit(ch) == \E i \in 1..Len(HexDigits) : HexDigits[i] = ch
DecValue(ch) == (CHOOSE i \in 1..Len(DecDigits) : DecDigits[i] = ch) - 1
hex_digit_value(ch) ==
    IF IsHexDigit(ch) THEN (CHOOSE i \in 1..Len(HexDigits) : HexDigits[i] = ch) - 1 ELSE -1

Zeros(n) == [i \in 1..n |-> 0]

\* inet_pton(AF_INET, ...): the loop of the dotted-quad parser, from character i on.
\* done: the octets already closed by a '.', cur: the octet being read (*tp).
RECURSIVE inet_pton4_loop(_, _, _, _, _, _)
inet_pton4_loop(src, i, done, cur, saw_digit, octets) ==
    IF i > Len(src)
    THEN IF octets < 4
         THEN [status |-> 0, bytes |-> <<>>]
         ELSE [status |-> 1, bytes |-> Append(done, cur)]
    ELSE LET ch == src[i] IN
         IF IsDecDigit(ch)
         THEN LET new == cur * 10 + DecValue(ch) IN
              IF saw_digit /\ cur = 0 THEN [status |-> 0, bytes |-> <<>>]
              ELSE IF new > 255 THEN [status |-> 0, bytes |-> <<>>]
              ELSE IF ~saw_digit /\ octets + 1 > 4 THEN [status |-> 0, bytes |-> <<>>]
              ELSE inet_pton4_loop(src, i + 1, done, new, TRUE,
                                   IF saw_digit THEN octets ELSE octets + 1)
         ELSE IF ch = "." /\ saw_digit
         THEN IF octets = 4 THEN [status |-> 0, bytes |-> <<>>]
              ELSE inet_pton4_loop(src, i + 1, Append(done, cur), 0, FALSE, octets)
         ELSE [status |-> 0, bytes |-> <<>>]

inet_pton4(src) == inet_pton4_loop(src, 1, <<>>, 0, FALSE, 0)

\* The end of the IPv6 parser: the pending group is stored, a "::" is expanded
\* to zeros, and the 16 bytes must be exactly filled.
inet_pton6_finish(out, colonp, xdigits_seen, val) ==
    LET room == Len(out) + 2 <= NS_IN6ADDRSZ
        out2 == IF xdigits_seen > 0 THEN out \o <<val \div 256, val % 256>> ELSE out
    IN  IF xdigits_seen > 0 /\ ~room THEN [status |-> 0, bytes |-> <<>>]
        ELSE IF colonp >= 0
        THEN IF Len(out2) = NS_IN6ADDRSZ THEN [status |-> 0, bytes |-> <<>>]
             ELSE [status |-> 1,
                   bytes |-> SubSeq(out2, 1, colonp)
                             \o Zeros(NS_IN6ADDRSZ - Len(out2))
                             \o SubSeq(out2, colonp + 1, Len(out2))]
        ELSE IF Len(out2) # NS_IN6ADDRSZ THEN [status |-> 0, bytes |-> <<>>]
        ELSE [status |-> 1, bytes |-> out2]

\* inet_pton(AF_INET6, ...): the loop over the text from character i on.
\* out: the bytes written so far (tp), colonp: where "::" was seen (-1: not seen),
\* curtok: where the current group starts.
RECURSIVE inet_pton6_loop(_, _, _, _, _, _, _)
inet_pton6_loop(src, i, out, colonp, curtok, xdigits_seen, val) ==
    IF i > Len(src)
    THEN inet_pton6_finish(out, colonp, xdigits_seen, val)
    ELSE LET ch == src[i] IN
         IF hex_digit_value(ch) >= 0
         THEN IF xdigits_seen = 4 THEN [status |-> 0, bytes |-> <<>>]
              ELSE inet_pton6_loop(src, i + 1, out, colonp, curtok, xdigits_seen + 1,
                                   val * 16 + hex_digit_value(ch))
         ELSE IF ch = ":"
         THEN IF xdigits_seen = 0
              THEN IF colonp >= 0 THEN [status |-> 0, bytes |-> <<>>]
                   ELSE inet_pton6_loop(src, i + 1, out, Len(out), i + 1, 0, 0)
              ELSE IF i = Len(src) THEN [status |-> 0, bytes |-> <<>>]
              ELSE IF Len(out) + 2 > NS_IN6ADDRSZ THEN [status |-> 0, bytes |-> <<>>]
              ELSE inet_pton6_loop(src, i + 1, out \o <<val \div 256, val % 256>>,
                                   colonp, i + 1, 0, 0)
         ELSE IF /\ ch = "."
                 /\ Len(out) + 4 <= NS_IN6ADDRSZ
                 /\ inet_pton4(SubSeq(src, curtok, Len(src))).status > 0
         THEN inet_pton6_finish(out \o inet_pton4(SubSeq(src, curtok, Len(src))).bytes,
                                colonp, 0, 0)
         ELSE [status |-> 0, bytes |-> <<>>]

inet_pton6(src) ==
    IF Len(src) = 0 THEN [status |-> 0, bytes |-> <<>>]
    ELSE IF src[1] = ":"
    THEN IF Len(src) = 1 \/ src[2] # ":" THEN [status |-> 0, bytes |-> <<>>]
         ELSE inet_pton6_loop(src, 2, <<>>, -1, 2, 0, 0)
    ELSE inet_pton6_loop(src, 1, <<>>, -1, 1, 0, 0)

\* inet_pton(af, src, dst): 1 and the binary address, 0 for text the family's
\* parser rejects, -1 for a family it does not know.
inet_pton(af, src) ==
    IF af = AF_INET THEN inet_pton4(src)
    ELSE IF af = AF_INET6 THEN inet_pton6(src)
    ELSE [status |-> -1, bytes |-> <<>>]

---------------------------------------------------------------------------
(* Address (src/src/address.hpp:50-188) *)

\* A 16-bit value as it lies in memory on a little-endian host, and back.
StoreU16(v) == <<v % 256, v \div 256>>
LoadU16(mem, off) == mem[off + 1] + 256 * mem[off + 2]

\* memcpy of bytes into mem at byte offset off.
WriteBytes(mem, off, bytes) ==
    [i \in 1..Len(mem) |->
        IF i > off /\ i <= off + Len(bytes) THEN bytes[i - off] ELSE mem[i]]

\* htons on a little-endian host: the two bytes of the value swapped.
htonsIdentity(port) == port
htons(port) == (port % 256) * 256 + (port \div 256)

\* Offsets in sockaddr_in / sockaddr_in6: sa_family at 0, the port at 2,
\* sin_addr at 4, sin6_addr at 8.
FamilyTag(a) == LoadU16(a.address_, 0)
PortBytes(a) == SubSeq(a.address_, 3, 4)
Sin_addr(a) == SubSeq(a.address_, 5, 8)
Sin6_addr(a) == SubSeq(a.address_, 9, 24)

\* address_ = {}
ZeroStorage == Zeros(SizeofSockaddrStorage)

\* The status test of the constructor's INET and INET6 cases.
ParseFailedOnlyOnError(status) == status = -1
ParseFailed(status) == status = 0 \/ status = -1

\* Address(family, ip, port); raw is the memory the object is built in.
AddressCtor(raw, family, ip, port) ==
    LET tagged == WriteBytes(ZeroStorage, 0, StoreU16(family % 65536))
        parsed == inet_pton(family % 65536, ip)
    IN  IF family = AF_INET
        THEN IF ParseFailed(parsed.status)
             THEN [state_ |-> FALSE, address_ |-> tagged, length_ |-> SizeofSockaddrStorage]
             ELSE [state_ |-> TRUE,
                   address_ |-> WriteBytes(WriteBytes(tagged, 4, parsed.bytes),
                                           2, StoreU16(htons(port))),
                   length_ |-> SizeofSockaddrStorage]
        ELSE IF family = AF_INET6
        THEN IF ParseFailed(parsed.status)
             THEN [state_ |-> FALSE, address_ |-> tagged, length_ |-> SizeofSockaddrStorage]
             ELSE [state_ |-> TRUE,
                   address_ |-> WriteBytes(WriteBytes(tagged, 8, parsed.bytes),
                                           2, StoreU16(htons(port))),
                   length_ |-> SizeofSockaddrStorage]
        ELSE [state_ |-> FALSE, address_ |-> tagged, length_ |-> SizeofSockaddrStorage]

\* Address(): address_ and length_ are assigned, state_ is not: it keeps
\* whatever the memory held.
AddressDefaultCtor(raw) ==
    [state_ |-> raw.state_, address_ |-> ZeroStorage, length_ |-> 0]

\* operator bool and size()
OperatorBool(a) == a.state_
size(a) == a.length_

\* The length of the family's native address structure.
NativeLength(family) ==
    IF family = AF_INET THEN SizeofSockaddrIn
    ELSE IF family = AF_INET6 THEN SizeofSockaddrIn6
    ELSE 0

(* The constructor calls the model makes *)

T_loopback4 == <<"1", "2", "7", ".", "0", ".", "0", ".", "1">>
T_999 == <<"9", "9", "9", ".", "1", ".", "1", ".", "1">>
T_empty == <<>>
T_abc == <<"a", "b", "c">>

SampleTexts ==
    { T_loopback4, T_999, T_empty, T_abc,
      <<"2", "5", "5", ".", "2", "5", "5", ".", "2", "5", "5", ".", "2", "5", "5">>,
      <<"2", "5", "6", ".", "0", ".", "0", ".", "1">>,
      <<"0", ".", "0", ".", "0", ".", "0">>,
      <<"0", "1", ".", "2", ".", "3", ".", "4">>,
      <<"1", ".", "2", ".", "3">>,
      <<"1", ".", "2", ".", "3", ".", "4", ".", "5">>,
      <<"1", ".", "2", ".", "3", ".", "4", ".">>,
      <<"1", ".", "2", ".", ".", "4">>,
      <<"1", ".", "2", ".", "3", ".", "4", " ">>,
      <<":", ":", "f", "f", "f", "f", ":", "1", ".", "2", ".", "3", ".", "4">>,
      <<"f", "e", "8", "0", ":", ":", "1">>,
      <<"1", ":", "2", ":", "3", ":", "4", ":", "5", ":", "6", ":", "7", ":", "8">>,
      <<"1", ":", "2", ":", "3", ":", "4", ":", "5", ":", "6", ":", "7">>,
      <<"1", ":", "2", ":", "3", ":", "4", ":", "5", ":", "6", ":", "7", ":", "8", ":", "9">>,
      <<"1", ":", "2", ":", "3", ":", "4", ":", "5", ":", "6", ":", "7", ":", ":">>,
      <<"1", "2", "3", "4", "5", ":", ":">>,
      <<"g", ":", ":", "1">> }

GenAlphabet == {"1", ".", ":"}
GenTexts == UNION {[1..n -> GenAlphabet] : n \in 0..MaxIpLen}

Families == {0, AF_INET, AF_INET6}
EdgePorts == {0, 255, 256, 8080, USHRT_MAX}

Texts == GenTexts \cup SampleTexts

ParamCall(f, t, p) == [kind |-> "param", family |-> f, ip |-> t, port |-> p]
DefaultCall == [kind |-> "default", family |-> 0, ip |-> <<>>, port |-> 0]

\* The memory an Address is built in, and the values the byte of the flag may
\* hold there: nothing is known of it.
RawAddress == [state_ |-> FALSE, address_ |-> ZeroStorage, length_ |-> 0]
Indeterminate == BOOLEAN

InitAddr ==
    /\ \/ addrCall = DefaultCall
       \/ \E f \in Families, t \in Texts, p \in EdgePorts : addrCall = ParamCall(f, t, p)
       \/ \E p \in 0..USHRT_MAX : addrCall = ParamCall(AF_INET, T_loopback4, p)
    /\ address = RawAddress
    /\ addrPc = "raw"

ConstructAddress ==
    /\ addrPc = "raw"
    /\ addrCall.kind = "param"
    /\ address' = AddressCtor(address, addrCall.family, addrCall.ip, addrCall.port)
    /\ addrPc' = "built"
    /\ UNCHANGED <<addrCall, addrRest>>

ConstructDefault ==
    /\ addrPc = "raw"
    /\ addrCall.kind = "default"
    /\ \E b \in Indeterminate :
          address' = AddressDefaultCtor([address EXCEPT !.state_ = b])
    /\ addrPc' = "built"
    /\ UNCHANGED <<addrCall, addrRest>>

---------------------------------------------------------------------------
(* The descriptor table and errno, as socket() and close() act on them *)

Fds == FirstFd..(FirstFd + MaxFds - 1)
FreeFds(tab) == {fd \in Fds : tab[fd] = 0}
LowestFree(tab) == CHOOSE fd \in FreeFds(tab) : \A g \in FreeFds(tab) : fd <= g

\* socket(af, type, protocol): the new descriptor, or -1 and errno.
\* opening names the descriptor handed out, for the bookkeeping of the checks.
OsSocket(tab, af, type, protocol, opening) ==
    IF af \notin {AF_INET, AF_INET6}
    THEN [ret |-> -1, err |-> EAFNOSUPPORT, tab |-> tab]
    ELSE IF type \notin {SOCK_STREAM, SOCK_DGRAM}
    THEN [ret |-> -1, err |-> ESOCKTNOSUPPORT, tab |-> tab]
    ELSE IF protocol \notin {0, IF type = SOCK_STREAM THEN IPPROTO_TCP ELSE IPPROTO_UDP}
    THEN [ret |-> -1, err |-> EPROTONOSUPPORT, tab |-> tab]
    ELSE IF FreeFds(tab) = {}
    THEN [ret |-> -1, err |-> EMFILE, tab |-> tab]
    ELSE [ret |-> LowestFree(tab), err |-> 0,
          tab |-> [tab EXCEPT ![LowestFree(tab)] = opening]]

\* close(fd): 0, or -1 and EBADF for a descriptor that is not open.
OsClose(tab, fd) ==
    IF fd \in Fds /\ tab[fd] # 0
    THEN [ret |-> 0, err |-> 0, tab |-> [tab EXCEPT ![fd] = 0]]
    ELSE [ret |-> -1, err |-> EBADF, tab |-> tab]

\* errno after an OS call: a failing call sets it, a successful one leaves it.
ErrnoAfter(old, r) == IF r.ret = -1 THEN r.err ELSE old
CallRecord(api, r) == [api |-> api, failed |-> r.ret = -1, code |-> r.err]

\* getSocketError / nsSocketError: return errno
getSocketErrorCleared(e) == 0
getSocketError(e) == e

\* A validity check that takes 0 for invalid.
isValidSocketPositive(socket) == socket > 0

\* isValidSocket / nsIsValidSocket: socket >= 0
isValidSocket(socket) == socket >= 0

---------------------------------------------------------------------------
(* Socket: construction, the implicit copy, destruction *)

Objects == 1..MaxObjects
NoSocket == [live |-> FALSE, _socket |-> -1, owns |-> 0]

SocketArgs == {0, AF_INET, AF_INET6} \X {0, SOCK_STREAM, SOCK_DGRAM} \X {0, IPPROTO_TCP, IPPROTO_UDP}

\* The opening a descriptor value names in the table (0: none).
OpeningAt(tab, fd) == IF fd \in Fds THEN tab[fd] ELSE 0

\* Socket(af, type, protocol): _socket = socket(af, type, protocol)
SocketOpen(o, af, type, protocol) ==
    /\ ~sockets[o].live
    /\ nOpened < MaxOpens
    /\ LET r == OsSocket(fdTable, af, type, protocol, nOpened + 1) IN
        /\ fdTable' = r.tab
        /\ errno' = ErrnoAfter(errno, r)
        /\ lastCall' = CallRecord("socket", r)
        /\ nOpened' = IF r.ret = -1 THEN nOpened ELSE nOpened + 1
        /\ sockets' = [sockets EXCEPT ![o] =
                          [live |-> TRUE, _socket |-> r.ret,
                           owns |-> OpeningAt(r.tab, r.ret)]]
    /\ UNCHANGED <<rawFds, closeLog, nCopies, errQuery, validQuery, sockRest>>

\* The caller opens a descriptor with the OS call itself, as accept() or
\* socket() give one.
RawSocket(af, type, protocol) ==
    /\ nOpened < MaxOpens
    /\ LET r == OsSocket(fdTable, af, type, protocol, nOpened + 1) IN
        /\ fdTable' = r.tab
        /\ errno' = ErrnoAfter(errno, r)
        /\ lastCall' = CallRecord("socket", r)
        /\ nOpened' = IF r.ret = -1 THEN nOpened ELSE nOpened + 1
        /\ rawFds' = IF r.ret = -1 THEN rawFds ELSE rawFds \cup {r.ret}
    /\ UNCHANGED <<sockets, closeLog, nCopies, errQuery, validQuery, sockRest>>

\* closeSocket / nsCloseSocket called by the caller on a descriptor it holds.
closeSocket(fd) ==
    /\ fd \in rawFds
    /\ LET r == OsClose(fdTable, fd) IN
        /\ fdTable' = r.tab
        /\ errno' = ErrnoAfter(errno, r)
        /\ lastCall' = CallRecord("close", r)
    /\ rawFds' = rawFds \ {fd}
    /\ UNCHANGED <<sockets, closeLog, nOpened, nCopies, errQuery, validQuery, sockRest>>

\* Socket(SOCKET socket): _socket = socket.  The caller hands over a
\* descriptor it holds.
SocketWrap(o, fd) ==
    /\ ~sockets[o].live
    /\ fd \in rawFds
    /\ sockets' = [sockets EXCEPT ![o] =
                      [live |-> TRUE, _socket |-> fd, owns |-> OpeningAt(fdTable, fd)]]
    /\ rawFds' = rawFds \ {fd}
    /\ UNCHANGED <<fdTable, errno, closeLog, nOpened, nCopies, lastCall, errQuery, validQuery, sockRest>>

\* The copy constructor the compiler generates (none is declared or
\* deleted): the new object holds the same _socket.
SocketCopy(o, from) ==
    /\ ~sockets[o].live
    /\ sockets[from].live
    /\ nCopies < MaxCopies
    /\ sockets' = [sockets EXCEPT ![o] = sockets[from]]
    /\ nCopies' = nCopies + 1
    /\ UNCHANGED <<fdTable, errno, rawFds, closeLog, nOpened, lastCall, errQuery, validQuery, sockRest>>

\* ~Socket(): nsCloseSocket(_socket), whatever _socket holds.
SocketDestroy(o) ==
    /\ sockets[o].live
    /\ LET r == OsClose(fdTable, sockets[o]._socket) IN
        /\ fdTable' = r.tab
        /\ errno' = ErrnoAfter(errno, r)
        /\ lastCall' = CallRecord("close", r)
    /\ closeLog' = IF sockets[o].owns = 0 THEN closeLog
                   ELSE [closeLog EXCEPT ![sockets[o].owns] = @ + 1]
    /\ sockets' = [sockets EXCEPT ![o] = NoSocket]
    /\ UNCHANGED <<rawFds, nOpened, nCopies, errQuery, validQuery, sockRest>>

\* The caller asks for the last error.
GetSocketError ==
    /\ errQuery' = [asked |-> TRUE, ret |-> getSocketError(errno),
                    afterFailure |-> lastCall.failed, code |-> lastCall.code]
    /\ UNCHANGED <<fdTable, errno, sockets, rawFds, closeLog, nOpened, nCopies, lastCall,
                   validQuery, sockRest>>

\* Descriptors the caller may hand to the validity check: what socket() can
\* return, SOCKET_ERROR included, and its neighbours.
Descriptors == (SOCKET_ERROR - 1)..(FirstFd + MaxFds)

\* The caller checks a descriptor: one it holds from a successful socket(),
\* the failure sentinel, or any other value.
IsValidSocket(socket) ==
    /\ validQuery' = [asked |-> TRUE, socket |-> socket, ret |-> isValidSocket(socket),
                      held |-> socket \in rawFds]
    /\ UNCHANGED <<fdTable, errno, sockets, rawFds, closeLog, nOpened, nCopies, lastCall,
                   errQuery, sockRest>>

InitSock ==
    /\ fdTable = [fd \in Fds |-> 0]
    /\ errno = 0
    /\ sockets = [o \in Objects |-> NoSocket]
    /\ rawFds = {}
    /\ closeLog = [k \in 1..MaxOpens |-> 0]
    /\ nOpened = 0
    /\ nCopies = 0
    /\ lastCall = [api |-> "none", failed |-> FALSE, code |-> 0]
    /\ errQuery = [asked |-> FALSE, ret |-> 0, afterFailure |-> FALSE, code |-> 0]
    /\ validQuery = [asked |-> FALSE, socket |-> 0, ret |-> FALSE, held |-> FALSE]

NextSock ==
    \/ \E o \in Objects, a \in SocketArgs : SocketOpen(o, a[1], a[2], a[3])
    \/ \E a \in SocketArgs : RawSocket(a[1], a[2], a[3])
    \/ \E fd \in Fds : closeSocket(fd)
    \/ \E o \in Objects, fd \in Fds : SocketWrap(o, fd)
    \/ \E o, from \in Objects : SocketCopy(o, from)
    \/ \E o \in Objects : SocketDestroy(o)
    \/ GetSocketError

\* The C interface alone: open, check, close.
NextValid ==
    \/ \E a \in SocketArgs : RawSocket(a[1], a[2], a[3])
    \/ \E fd \in Fds : closeSocket(fd)
    \/ \E socket \in Descriptors : IsValidSocket(socket)
    \/ GetSocketError

NextAddr == ConstructAddress \/ ConstructDefault

---------------------------------------------------------------------------
(* A connected stream pair, as send(), recv() and shutdown() act on it.     *)
(* Socket 1 is the sender's, socket 2 the receiver's.                        *)

Sender == 1
Receiver == 2
Peer(s) == 3 - s

\* ShutdownFlags
RECEIVE == 0
SEND == 1
BOTH == 2

Max(a, b) == IF a >= b THEN a ELSE b

\* recv would not block: bytes are queued, an error is pending, the peer has
\* finished sending and nothing is in flight, or reading was shut down.
RecvReady(c, s) ==
    \/ c.rcvq[s] # <<>>
    \/ c.sockErr[s] # 0
    \/ c.dead[s]
    \/ c.shutRd[s]
    \/ c.shutWr[Peer(s)] /\ c.wire[s] = <<>>

\* recv(s, buf, length, 0): the queued bytes first, then a pending error
\* (reported once), then 0 for end of stream.
OsRecv(c, s, length) ==
    IF c.rcvq[s] # <<>>
    THEN LET n == Min(length, Len(c.rcvq[s])) IN
         [ret |-> n, err |-> 0, data |-> SubSeq(c.rcvq[s], 1, n),
          conn |-> [c EXCEPT !.rcvq[s] = SubSeq(@, n + 1, Len(@))]]
    ELSE IF c.sockErr[s] # 0
    THEN [ret |-> -1, err |-> c.sockErr[s], data |-> <<>>,
          conn |-> [c EXCEPT !.sockErr[s] = 0]]
    ELSE [ret |-> 0, err |-> 0, data |-> <<>>, conn |-> c]

\* send would not block: it fails at once, or the network takes a byte.
SendReady(c, s, length) ==
    \/ c.shutWr[s] \/ c.sockErr[s] # 0 \/ c.dead[s]
    \/ length = 0
    \/ Len(c.wire[Peer(s)]) < WireCap

\* send(s, buf, length, 0): the count the network took, or -1.
OsSend(c, s, data, length) ==
    IF c.shutWr[s] THEN [ret |-> -1, err |-> EPIPE, conn |-> c]
    ELSE IF c.sockErr[s] # 0
    THEN [ret |-> -1, err |-> c.sockErr[s], conn |-> [c EXCEPT !.sockErr[s] = 0]]
    ELSE IF c.dead[s] THEN [ret |-> -1, err |-> EPIPE, conn |-> c]
    ELSE LET n == Min(length, WireCap - Len(c.wire[Peer(s)])) IN
         [ret |-> n, err |-> 0,
          conn |-> [c EXCEPT !.wire[Peer(s)] = @ \o SubSeq(data, 1, n)]]

\* shutdown(s, how): -1 and ENOTCONN on a connection that is gone.  Whether
\* bytes already queued survive a shutdown of the reading side differs
\* between systems: drop says which.
OsShutdown(c, s, how, drop) ==
    IF c.dead[s] THEN [ret |-> -1, err |-> ENOTCONN, conn |-> c]
    ELSE [ret |-> 0, err |-> 0,
          conn |-> [c EXCEPT !.shutRd[s] = @ \/ how \in {RECEIVE, BOTH},
                             !.shutWr[s] = @ \/ how \in {SEND, BOTH},
                             !.rcvq[s] = IF how \in {RECEIVE, BOTH} /\ drop
                                         THEN <<>> ELSE @]]

(* The raw wrappers: one OS call each, its result returned *)

\* What a wrapper call did: the OS calls it made, the last one's result, and
\* what it returned.
Outcome(r, nOs, ret) ==
    [conn |-> r.conn, err |-> r.err, osRet |-> r.ret, failed |-> r.ret = -1,
     data |-> IF "data" \in DOMAIN r THEN r.data ELSE <<>>,
     nOs |-> nOs, ret |-> ret]

\* A Send that reports the length it was asked to send.
SocketSendReturnsLength(c, s, data, length) ==
    LET r == OsSend(c, s, data, length) IN Outcome(r, 1, length)

\* Socket::Send(const char*, int, int)
SocketSend(c, s, data, length) ==
    LET r == OsSend(c, s, data, length) IN Outcome(r, 1, r.ret)

\* Socket::SendTo(const char*, int, int, sockaddr*, socklen_t): on a connected
\* stream socket sendto(..., nullptr, 0) is send.
SocketSendTo(c, s, data, length) ==
    LET r == OsSend(c, s, data, length) IN Outcome(r, 1, r.ret)

\* Socket::Receive(char*, int, int)
SocketReceive(c, s, length) ==
    LET r == OsRecv(c, s, length) IN Outcome(r, 1, r.ret)

\* Socket::ReceiveFrom(char*, size_t, int, sockaddr*, socklen_t*)
SocketReceiveFrom(c, s, length) ==
    LET r == OsRecv(c, s, length) IN Outcome(r, 1, r.ret)

\* Socket::Shutdown: status != SOCKET_ERROR
ShutdownAlwaysTrue(status) == TRUE
ShutdownResult(status) == status # SOCKET_ERROR

(* Receive(std::string&, ReceiveFlags) *)

\* while (received == CHAR_MAX)
LoopWhilePositive(received) == received > 0
LoopAgain(received) == received = CHAR_MAX

\* recv's bytes as they land in the chunk `what`.
Filled(what, data) == [i \in 1..Len(what) |-> IF i <= Len(data) THEN data[i] ELSE what[i]]

\* buffer.append(what.cbegin(), what.cend())
Appended(buf, what, received) == buf \o what

(* The calls the model makes *)

\* Payload lengths at and next to the multiples of the chunk size.
PayloadLengths == {n \in 0..MaxSendBytes : n % CHAR_MAX \in {0, 1, CHAR_MAX - 1}}
PayloadOf(n) == [i \in 1..n |-> 1 + ((i - 1) % 251)]
RawLengths == {1, CHAR_MAX}
\* the sizes in which the network hands over the bytes in flight
SegmentSizes(w) == {CHAR_MAX - 1, CHAR_MAX, Len(w)}

\* Shutdown(BOTH) has been called on the socket and returned true.
ShutBothDone(s) == shutLog[s].called /\ shutLog[s].how = BOTH /\ shutLog[s].ret

NoRead == [any |-> FALSE, sock |-> 0, afterShutBoth |-> FALSE, queued |-> 0,
           errPending |-> FALSE, ret |-> 0]
ReadRecord(c, s, ret) ==
    [any |-> TRUE, sock |-> s,
     afterShutBoth |-> ShutBothDone(s),
     queued |-> Len(c.rcvq[s]), errPending |-> c.sockErr[s] # 0, ret |-> ret]

InitIO ==
    /\ conn = [wire |-> [s \in {Sender, Receiver} |-> <<>>],
               rcvq |-> [s \in {Sender, Receiver} |-> <<>>],
               shutRd |-> [s \in {Sender, Receiver} |-> FALSE],
               shutWr |-> [s \in {Sender, Receiver} |-> FALSE],
               sockErr |-> [s \in {Sender, Receiver} |-> 0],
               dead |-> [s \in {Sender, Receiver} |-> FALSE]]
    /\ buffer = <<>>
    /\ rx = [pc |-> "idle", what |-> <<>>, received |-> 0, reads |-> <<>>, ret |-> 0,
             bufAtCall |-> <<>>, sentAtCall |-> 0, queuedAtCall |-> 0,
             afterShutBoth |-> FALSE]
    /\ sendLog = [calls |-> 0, bytes |-> 0, asked |-> 0, ret |-> 0]
    /\ wrapLog = [api |-> "none", nOs |-> 0, osRet |-> 0, ret |-> 0, asked |-> 0]
    /\ shutLog = [s \in {Sender, Receiver} |->
                    [called |-> FALSE, how |-> 0, osRet |-> 0, ret |-> FALSE]]
    /\ readLog = NoRead
    /\ nRecvCalls = 0

\* Send(const std::string&, SendFlags): Send(buffer.c_str(), buffer.length(), flags)
Send(s, n) ==
    /\ sendLog.calls < MaxSends
    /\ sendLog.bytes + n <= MaxSendBytes
    /\ SendReady(conn, s, n)
    /\ LET o == SocketSend(conn, s, PayloadOf(n), n) IN
        /\ conn' = o.conn
        /\ errno' = IF o.failed THEN o.err ELSE errno
        /\ sendLog' = [calls |-> sendLog.calls + 1, bytes |-> sendLog.bytes + n,
                       asked |-> n, ret |-> o.ret]
    /\ UNCHANGED <<buffer, rx, wrapLog, shutLog, readLog, nRecvCalls, ioRest>>

\* Send(const char*, int, int) called by the sender itself
SendRaw(s, n) ==
    /\ sendLog.calls < MaxSends
    /\ sendLog.bytes + n <= MaxSendBytes
    /\ SendReady(conn, s, n)
    /\ LET o == SocketSend(conn, s, PayloadOf(n), n) IN
        /\ conn' = o.conn
        /\ errno' = IF o.failed THEN o.err ELSE errno
        /\ sendLog' = [calls |-> sendLog.calls + 1, bytes |-> sendLog.bytes + n,
                       asked |-> n, ret |-> o.ret]
        /\ wrapLog' = [api |-> "Send", nOs |-> o.nOs, osRet |-> o.osRet, ret |-> o.ret,
                       asked |-> n]
    /\ UNCHANGED <<buffer, rx, shutLog, readLog, nRecvCalls, ioRest>>

\* SendTo(const std::string&, SendFlags, Address*) with no address:
\* SendTo(buffer.c_str(), buffer.size(), flags, nullptr, 0)
SendTo(s, n) ==
    /\ sendLog.calls < MaxSends
    /\ sendLog.bytes + n <= MaxSendBytes
    /\ SendReady(conn, s, n)
    /\ LET o == SocketSendTo(conn, s, PayloadOf(n), n) IN
        /\ conn' = o.conn
        /\ errno' = IF o.failed THEN o.err ELSE errno
        /\ sendLog' = [calls |-> sendLog.calls + 1, bytes |-> sendLog.bytes + n,
                       asked |-> n, ret |-> o.ret]
        /\ wrapLog' = [api |-> "SendTo", nOs |-> o.nOs, osRet |-> o.osRet, ret |-> o.ret,
                       asked |-> n]
    /\ UNCHANGED <<buffer, rx, shutLog, readLog, nRecvCalls, ioRest>>

\* Receive(buffer, flags) is entered: what(CHAR_MAX) is allocated zeroed,
\* received = 0.
ReceiveBegin(s) ==
    /\ rx.pc \in {"idle", "done"}
    /\ nRecvCalls < MaxRecvCalls
    /\ rx' = [pc |-> "loop", what |-> Zeros(CHAR_MAX), received |-> 0, reads |-> <<>>,
              ret |-> 0,
              bufAtCall |-> buffer, sentAtCall |-> sendLog.calls,
              queuedAtCall |-> Len(conn.rcvq[s]),
              afterShutBoth |-> ShutBothDone(s)]
    /\ nRecvCalls' = nRecvCalls + 1
    /\ UNCHANGED <<conn, buffer, sendLog, wrapLog, shutLog, readLog, errno, ioRest>>

\* One turn of the loop: the read, the append, the test; the call returns
\* `received` when the test fails.
ReceiveIter(s) ==
    /\ rx.pc = "loop"
    /\ RecvReady(conn, s)
    /\ LET o == SocketReceive(conn, s, CHAR_MAX)
           what == Filled(rx.what, o.data)
           again == LoopAgain(o.ret)
       IN
        /\ conn' = o.conn
        /\ errno' = IF o.failed THEN o.err ELSE errno
        /\ buffer' = Appended(buffer, what, o.ret)
        /\ readLog' = ReadRecord(conn, s, o.ret)
        /\ rx' = [rx EXCEPT !.pc = IF again THEN "loop" ELSE "done",
                            !.what = what,
                            !.received = o.ret,
                            !.reads = Append(@, o.ret),
                            !.ret = IF again THEN @ ELSE o.ret]
    /\ UNCHANGED <<sendLog, wrapLog, shutLog, nRecvCalls, ioRest>>

\* Receive(char*, int, int) called by the receiver itself; the bytes go to
\* the caller's own array.
ReceiveRaw(s, length) ==
    /\ rx.pc \in {"idle", "done"}
    /\ nRecvCalls < MaxRecvCalls
    /\ RecvReady(conn, s)
    /\ LET o == SocketReceive(conn, s, length) IN
        /\ conn' = o.conn
        /\ errno' = IF o.failed THEN o.err ELSE errno
        /\ readLog' = ReadRecord(conn, s, o.ret)
        /\ wrapLog' = [api |-> "Receive", nOs |-> o.nOs, osRet |-> o.osRet, ret |-> o.ret,
                       asked |-> length]
    /\ nRecvCalls' = nRecvCalls + 1
    /\ UNCHANGED <<buffer, rx, sendLog, shutLog, ioRest>>

\* ReceiveFrom(char*, size_t, int, nullptr, nullptr)
ReceiveFromRaw(s, length) ==
    /\ rx.pc \in {"idle", "done"}
    /\ nRecvCalls < MaxRecvCalls
    /\ RecvReady(conn, s)
    /\ LET o == SocketReceiveFrom(conn, s, length) IN
        /\ conn' = o.conn
        /\ errno' = IF o.failed THEN o.err ELSE errno
        /\ readLog' = ReadRecord(conn, s, o.ret)
        /\ wrapLog' = [api |-> "ReceiveFrom", nOs |-> o.nOs, osRet |-> o.osRet,
                       ret |-> o.ret, asked |-> length]
    /\ nRecvCalls' = nRecvCalls + 1
    /\ UNCHANGED <<buffer, rx, sendLog, shutLog, ioRest>>

\* Shutdown(flag)
Shutdown(s, how) ==
    /\ ~shutLog[s].called
    /\ \E drop \in BOOLEAN :
        LET r == OsShutdown(conn, s, how, drop) IN
        /\ conn' = r.conn
        /\ errno' = IF r.ret = -1 THEN r.err ELSE errno
        /\ shutLog' = [shutLog EXCEPT ![s] =
                          [called |-> TRUE, how |-> how, osRet |-> r.ret,
                           ret |-> ShutdownResult(r.ret)]]
    /\ UNCHANGED <<buffer, rx, sendLog, wrapLog, readLog, nRecvCalls, ioRest>>

\* The network hands the endpoint a segment of the bytes in flight.  An
\* endpoint shut down in both directions answers data with a reset: the
\* connection is gone and the error is pending on it.
Deliver(s, k) ==
    /\ k \in 1..Len(conn.wire[s])
    /\ k \in SegmentSizes(conn.wire[s])
    /\ conn' = IF conn.shutRd[s] /\ conn.shutWr[s]
               THEN [conn EXCEPT !.wire[s] = <<>>,
                                 !.sockErr[s] = ECONNRESET,
                                 !.dead = [e \in {Sender, Receiver} |-> TRUE]]
               ELSE [conn EXCEPT !.wire[s] = SubSeq(@, k + 1, Len(@)),
                                 !.rcvq[s] = @ \o SubSeq(conn.wire[s], 1, k)]
    /\ UNCHANGED <<buffer, rx, sendLog, wrapLog, shutLog, readLog, nRecvCalls,
                   errno, ioRest>>

\* The peer aborts the connection: a reset reaches the endpoint.
ConnReset(s) ==
    /\ ~conn.dead[s]
    /\ conn' = [conn EXCEPT !.wire[s] = <<>>,
                            !.sockErr[s] = ECONNRESET,
                            !.dead = [e \in {Sender, Receiver} |-> TRUE]]
    /\ UNCHANGED <<buffer, rx, sendLog, wrapLog, shutLog, readLog, nRecvCalls,
                   errno, ioRest>>

\* Receive(buffer, flags) against Send(buffer, flags) on the pair
NextIO ==
    \/ \E n \in PayloadLengths : Send(Sender, n)
    \/ ReceiveBegin(Receiver)
    \/ ReceiveIter(Receiver)
    \/ Shutdown(Sender, SEND)
    \/ \E how \in {RECEIVE, SEND, BOTH} : Shutdown(Receiver, how)
    \/ \E k \in 1..WireCap : Deliver(Receiver, k)
    \/ ConnReset(Receiver)

\* The raw wrappers on the pair
NextRaw ==
    \/ \E n \in PayloadLengths : SendRaw(Sender, n)
    \/ \E n \in PayloadLengths : SendTo(Sender, n)
    \/ \E n \in RawLengths : ReceiveRaw(Receiver, n)
    \/ \E n \in RawLengths : ReceiveFromRaw(Receiver, n)
    \/ Shutdown(Sender, SEND)
    \/ \E k \in 1..WireCap : Deliver(Receiver, k)
    \/ ConnReset(Receiver)

\* No Address under construction.
IdleAddr == addrCall = DefaultCall /\ address = RawAddress /\ addrPc = "raw"

\* Address construction
InitSpecAddr == InitAddr /\ InitSock /\ InitIO
SpecAddr == InitSpecAddr /\ [][NextAddr]_vars

\* Socket lifetimes over the descriptor table
InitSpecSock == IdleAddr /\ InitSock /\ InitIO
SpecSock == InitSpecSock /\ [][NextSock]_vars

\* Send, receive and shutdown on a connected pair
InitSpecIO == IdleAddr /\ InitSock /\ InitIO
SpecIO == InitSpecIO /\ [][NextIO]_vars

\* The raw send and receive wrappers on a connected pair
InitSpecRaw == IdleAddr /\ InitSock /\ InitIO
SpecRaw == InitSpecRaw /\ [][NextRaw]_vars

\* The validity check on descriptors the caller got from socket()
InitSpecValid == IdleAddr /\ InitSock /\ InitIO
SpecValid == InitSpecValid /\ [][NextValid]_vars

---------------------------------------------------------------------------
(* Dotted-decimal IPv4 text, stated apart from the parser: four fields       *)
(* separated by three dots, each a decimal numeral of one to three digits,  *)
(* at most 255, written without a leading zero.                             *)

RECURSIVE NumeralValue(_)
NumeralValue(f) ==
    IF Len(f) = 0 THEN 0
    ELSE 10 * NumeralValue(SubSeq(f, 1, Len(f) - 1)) + DecValue(f[Len(f)])

IsOctetNumeral(f) ==
    /\ Len(f) \in 1..3
    /\ \A i \in 1..Len(f) : IsDecDigit(f[i])
    /\ Len(f) > 1 => f[1] # "0"
    /\ NumeralValue(f) <= 255

IsDottedQuad(t) ==
    \E d1, d2, d3 \in 1..Len(t) :
        /\ d1 < d2 /\ d2 < d3
        /\ {i \in 1..Len(t) : t[i] = "."} = {d1, d2, d3}
        /\ IsOctetNumeral(SubSeq(t, 1, d1 - 1))
        /\ IsOctetNumeral(SubSeq(t, d1 + 1, d2 - 1))
        /\ IsOctetNumeral(SubSeq(t, d2 + 1, d3 - 1))
        /\ IsOctetNumeral(SubSeq(t, d3 + 1, Len(t)))

BuiltFromArgs == addrPc = "built" /\ addrCall.kind = "param"
BuiltByDefault == addrPc = "built" /\ addrCall.kind = "default"

\* C3: an Address built from (family, ip, port) that reports itself valid
\* carries the family tag it was given and reports, as size(), the length of
\* that family's native address structure, not the capacity of the storage.
C3_ValidAddressHasNativeLength ==
    (BuiltFromArgs /\ OperatorBool(address)) =>
        /\ FamilyTag(address) = addrCall.family
        /\ size(address) = NativeLength(addrCall.family)

\* C4: an Address built from text the family's parser rejects is not valid,
\* whatever the family and the port; a family other than INET and INET6 gives
\* an Address that is not valid, whatever the text.
C4_RejectedTextIsInvalid ==
    BuiltFromArgs =>
        /\ inet_pton(addrCall.family, addrCall.ip).status # 1 => ~OperatorBool(address)
        /\ addrCall.family \notin {AF_INET, AF_INET6} => ~OperatorBool(address)
        /\ addrCall.ip \in {T_999, T_empty, T_abc} => ~OperatorBool(address)
        /\ (addrCall.family = AF_INET /\ ~IsDottedQuad(addrCall.ip))
               => ~OperatorBool(address)

C4_Witness ==
    /\ BuiltFromArgs
    /\ addrCall.family = AF_INET6
    /\ addrCall.ip = T_999
    /\ ~OperatorBool(address)

\* C5: an INET Address built from dotted-decimal IPv4 text and a port p is
\* valid and holds the port as the two bytes (p div 256, p mod 256), in that
\* order, for every p in 0..65535.
C5_PortInNetworkByteOrder ==
    (BuiltFromArgs /\ addrCall.family = AF_INET /\ IsDottedQuad(addrCall.ip)) =>
        /\ OperatorBool(address)
        /\ PortBytes(address) = <<addrCall.port \div 256, addrCall.port % 256>>

C5_Witness ==
    /\ BuiltFromArgs
    /\ addrCall.family = AF_INET
    /\ IsDottedQuad(addrCall.ip)
    /\ addrCall.port = 256
    /\ PortBytes(address) = <<1, 0>>

\* C6: a default-constructed Address has all-zero storage, length 0, and does
\* not report itself valid.
C6_DefaultAddressIsNotValid ==
    BuiltByDefault =>
        /\ address.address_ = ZeroStorage
        /\ size(address) = 0
        /\ ~OperatorBool(address)

---------------------------------------------------------------------------
(* Socket lifetimes *)

IsOpen(k) == \E fd \in Fds : fdTable[fd] = k
IsHeld(k) ==
    \/ \E o \in Objects : sockets[o].live /\ sockets[o].owns = k
    \/ \E fd \in rawFds : fdTable[fd] = k

\* C2: every descriptor a Socket owns is closed exactly once: it is closed
\* once its owners are gone (no descriptor is left open that nobody holds),
\* and no ~Socket closes a descriptor that a ~Socket has closed already.
C2_DescriptorClosedExactlyOnce ==
    \A k \in 1..MaxOpens :
        /\ closeLog[k] <= 1
        /\ (IsOpen(k) => IsHeld(k))

\* C10: the last-error accessor, called next after a failing socket
\* operation, returns the non-zero code that operation set.
C10_LastErrorAfterFailure ==
    (errQuery.asked /\ errQuery.afterFailure) =>
        /\ errQuery.ret # 0
        /\ errQuery.ret = errQuery.code

C10_Witness ==
    /\ errQuery.asked
    /\ errQuery.afterFailure
    /\ lastCall.api = "socket"
    /\ errQuery.ret = EAFNOSUPPORT

---------------------------------------------------------------------------
(* Send and receive on the connected pair *)

\* C1: after one Send(P) that took the whole of P, and with all of P queued
\* at the receiver, a Receive(buffer, flags) on an empty buffer leaves exactly
\* P in the buffer.
C1_ReceiveEchoesPayload ==
    ( /\ rx.pc = "done"
      /\ nRecvCalls = 1
      /\ rx.bufAtCall = <<>>
      /\ rx.sentAtCall = 1
      /\ sendLog.calls = 1
      /\ sendLog.ret = sendLog.asked
      /\ rx.queuedAtCall = sendLog.asked
      /\ ~shutLog[Sender].called /\ ~shutLog[Receiver].called
      /\ ~conn.dead[Receiver] )
    => buffer = PayloadOf(sendLog.asked)

C9_ReceiveAfterShutdownReturnsZero ==
    /\ (rx.pc = "done" /\ rx.afterShutBoth) => rx.ret = 0
    /\ \A s \in {Sender, Receiver} :
          shutLog[s].called => (shutLog[s].ret <=> shutLog[s].osRet # SOCKET_ERROR)

\* C9 as amended: once Shutdown(BOTH) has returned true on a connected socket,
\* no read on it blocks; a read that finds no unread bytes queued and no
\* connection error pending returns 0, and a Receive returns what its last
\* read returned; Shutdown returns true exactly when the OS call reported no
\* error.
C9_ReadAfterShutdownDoesNotBlock ==
    /\ \A s \in {Sender, Receiver} : ShutBothDone(s) => RecvReady(conn, s)
    /\ (readLog.any /\ readLog.afterShutBoth /\ readLog.queued = 0 /\ ~readLog.errPending)
          => readLog.ret = 0
    /\ (readLog.any /\ readLog.afterShutBoth /\ readLog.queued > 0)
          => readLog.ret = Min(readLog.queued, CHAR_MAX)
    /\ (rx.pc = "done" /\ rx.afterShutBoth) => rx.ret = rx.reads[Len(rx.reads)]
    /\ \A s \in {Sender, Receiver} :
          shutLog[s].called => (shutLog[s].ret <=> shutLog[s].osRet # SOCKET_ERROR)

C9_Witness ==
    /\ rx.pc = "done"
    /\ rx.afterShutBoth
    /\ readLog.afterShutBoth /\ readLog.queued = 0 /\ ~readLog.errPending
    /\ rx.ret = 0

---------------------------------------------------------------------------
(* The raw wrappers *)

IsSendStep == sendLog'.calls # sendLog.calls
IsRecvStep == nRecvCalls' # nRecvCalls

IsValidityCheckStep == validQuery' # validQuery

\* C11: isValidSocket / nsIsValidSocket returns true for a descriptor a
\* successful socket() returned and false for SOCKET_ERROR, true exactly when
\* the descriptor is >= 0, and the call changes nothing: the descriptor table,
\* errno and every object are as they were.
C11_ValidityCheckIsSignTest ==
    [][ IsValidityCheckStep =>
          /\ validQuery'.asked
          /\ validQuery'.held => validQuery'.ret
          /\ validQuery'.socket = SOCKET_ERROR => ~validQuery'.ret
          /\ validQuery'.ret <=> validQuery'.socket >= 0
          /\ UNCHANGED <<fdTable, errno, sockets, rawFds, closeLog, nOpened, nCopies,
                         lastCall, errQuery, addrVars, ioVars>> ]_vars

\* a descriptor socket() has just handed out is checked and found valid
C11_Witness ==
    /\ validQuery.asked
    /\ validQuery.held
    /\ validQuery.socket \in rawFds
    /\ fdTable[validQuery.socket] # 0
    /\ validQuery.ret


RECURSIVE BytesReceived(_)
\* the bytes the reads of a call delivered: the sum of the results that are
\* not negative
BytesReceived(reads) ==
    IF reads = <<>> THEN 0
    ELSE BytesReceived(SubSeq(reads, 1, Len(reads) - 1))
         + Max(reads[Len(reads)], 0)

\* C12: Receive(buffer, flags) appends to the caller's buffer only the bytes
\* its reads delivered: after reads returning r1..rk the buffer is what it was
\* at the call followed by as many bytes as the non-negative ri add up to, so
\* a read returning 0 or -1 leaves the buffer as it was.
C12_ReceiveAppendsOnlyReceivedBytes ==
    (rx.pc \in {"loop", "done"}) =>
        /\ Len(buffer) = Len(rx.bufAtCall) + BytesReceived(rx.reads)
        /\ SubSeq(buffer, 1, Len(rx.bufAtCall)) = rx.bufAtCall

=============================================================================
